---- MODULE Spec2Model ----
(***************************************************************************)
(* Model of app_data/full_sequences/consolidate_data.py: the FASTA parser, *)
(* the two reactivity readers and the module-level consolidation loop.     *)
(*                                                                         *)
(* A text is a sequence of one-character strings.  A file is a record      *)
(* [exists, content]; a missing file makes open() raise FileNotFoundError. *)
(* Python's None is the record None below, a list result is Some(list).    *)
(***************************************************************************)
EXTENDS Integers, Sequences, FiniteSets, TLC

VARIABLES
    \* the module-level names of the script (lines 75-127)
    all_data, prefix_idx, heavy_chains, light_chains, reactivity,
    pc, exc, output, writes,
    \* what the run has read so far: per dataset, the record count of a
    \* consistent dataset, or -1 (not read, skipped or failed)
    counts,
    \* a call of one parser or reader on one file
    fn, file, make_uppercase, result,
    \* the companion run, on the same files except one heavy-chain file
    div, alt_all_data, alt_pc, alt_idx, alt_exc

vars == << all_data, prefix_idx, heavy_chains, light_chains, reactivity,
           pc, exc, output, writes, counts,
           fn, file, make_uppercase, result,
           div, alt_all_data, alt_pc, alt_idx, alt_exc >>

driverVars == << all_data, prefix_idx, heavy_chains, light_chains, reactivity,
                 pc, exc, output, writes, counts >>
callVars == << fn, file, make_uppercase, result >>
pairVars == << div, alt_all_data, alt_pc, alt_idx, alt_exc >>

-----------------------------------------------------------------------------
(* Bounds *)

\* longest FASTA text handed to parse_fasta_universal
MaxLen == 8
\* longest text handed to process_react_binary
MaxBinLen == 5

-----------------------------------------------------------------------------
(* Python values *)

None == [isNone |-> TRUE, list |-> << >>]
Some(l) == [isNone |-> FALSE, list |-> l]

Missing == [exists |-> FALSE, content |-> << >>]
File(t) == [exists |-> TRUE, content |-> t]

\* str.isspace() on the characters of the modelled alphabets
Whitespace == {" ", "\n", "\t", "\r"}

\* str.upper() / str.lower(), character by character
upper_char(c) ==
    CASE c = "a" -> "A" [] c = "c" -> "C" [] c = "g" -> "G" [] c = "t" -> "T"
      [] c = "y" -> "Y" [] c = "n" -> "N" [] c = "r" -> "R" [] c = "e" -> "E"
      [] c = "s" -> "S" [] c = "h" -> "H" [] c = "x" -> "X"
      [] OTHER -> c

lower_char(c) ==
    CASE c = "A" -> "a" [] c = "C" -> "c" [] c = "G" -> "g" [] c = "T" -> "t"
      [] c = "Y" -> "y" [] c = "N" -> "n" [] c = "R" -> "r" [] c = "E" -> "e"
      [] c = "S" -> "s" [] c = "H" -> "h" [] c = "X" -> "x"
      [] OTHER -> c

upper(s) == [k \in 1..Len(s) |-> upper_char(s[k])]
lower(s) == [k \in 1..Len(s) |-> lower_char(s[k])]

RECURSIVE lstrip(_)
lstrip(s) ==
    IF s # << >> /\ Head(s) \in Whitespace THEN lstrip(Tail(s)) ELSE s

RECURSIVE rstrip(_)
rstrip(s) ==
    IF s # << >> /\ s[Len(s)] \in Whitespace
    THEN rstrip(SubSeq(s, 1, Len(s) - 1))
    ELSE s

\* str.strip()
strip(s) == rstrip(lstrip(s))

\* str.index(c), 1-based; 0 stands for ValueError (c does not occur)
index(s, c) ==
    IF \E k \in 1..Len(s) : s[k] = c
    THEN CHOOSE k \in 1..Len(s) : s[k] = c /\ \A j \in 1..(k - 1) : s[j] # c
    ELSE 0

\* str.split(c) with a one-character separator
RECURSIVE split(_, _)
split(s, c) ==
    LET k == index(s, c)
    IN  IF k = 0
        THEN << s >>
        ELSE << SubSeq(s, 1, k - 1) >> \o split(SubSeq(s, k + 1, Len(s)), c)

\* str.split() with no argument: the maximal runs of non-whitespace
RECURSIVE split_whitespace(_)
split_whitespace(s) ==
    LET t == lstrip(s)
    IN  IF t = << >>
        THEN << >>
        ELSE LET ends == {k \in 1..Len(t) : t[k] \in Whitespace}
                 stop == IF ends = {} THEN Len(t) + 1
                         ELSE CHOOSE k \in ends : \A j \in ends : k <= j
             IN  << SubSeq(t, 1, stop - 1) >>
                 \o split_whitespace(SubSeq(t, stop, Len(t)))

\* "".join(list)
RECURSIVE join(_)
join(l) == IF l = << >> THEN << >> ELSE Head(l) \o join(Tail(l))

\* sub in s, for texts
contains(s, sub) ==
    \E k \in 0..(Len(s) - Len(sub)) : SubSeq(s, k + 1, k + Len(sub)) = sub

\* file.readlines() / iteration over a file: lines keep their "\n"
RECURSIVE readlines(_)
readlines(t) ==
    LET k == index(t, "\n")
    IN  IF t = << >> THEN << >>
        ELSE IF k = 0 THEN << t >>
        ELSE << SubSeq(t, 1, k) >> \o readlines(SubSeq(t, k + 1, Len(t)))

-----------------------------------------------------------------------------
(* parse_fasta_universal *)

\* cleaned_sequence with line 29 trimming the ends only
cleaned_sequence_trim_only(record_block, upper_flag) ==
    LET first_newline_pos == index(record_block, "\n")
        sequence_part ==
            IF first_newline_pos = 0
            THEN << >>
            ELSE SubSeq(record_block, first_newline_pos + 1, Len(record_block))
        cleaned == strip(sequence_part)
    IN  IF upper_flag THEN upper(cleaned) ELSE cleaned

\* lines 19-33: the cleaned sequence of one record block
cleaned_sequence(record_block, upper_flag) ==
    LET first_newline_pos == index(record_block, "\n")
        sequence_part ==
            IF first_newline_pos = 0
            THEN << >>
            ELSE SubSeq(record_block, first_newline_pos + 1, Len(record_block))
        cleaned == join(split_whitespace(sequence_part))
    IN  IF upper_flag THEN upper(cleaned) ELSE cleaned

\* lines 14-37: the loop over the record blocks
RECURSIVE parse_records(_, _)
parse_records(records, upper_flag) ==
    IF records = << >> THEN << >>
    ELSE LET record_block == Head(records)
             rest == parse_records(Tail(records), upper_flag)
             cleaned == cleaned_sequence(record_block, upper_flag)
         IN  IF strip(record_block) = << >> THEN rest
             ELSE IF cleaned # << >> THEN << cleaned >> \o rest
             ELSE rest

\* parse_fasta_universal returning an empty list for a missing file
parse_fasta_universal_empty_on_missing(f, upper_flag) ==
    IF ~f.exists
    THEN Some(<< >>)
    ELSE Some(parse_records(split(strip(f.content), ">"), upper_flag))

parse_fasta_universal(f, upper_flag) ==
    IF ~f.exists
    THEN None
    ELSE Some(parse_records(split(strip(f.content), ">"), upper_flag))

-----------------------------------------------------------------------------
(* The reactivity readers.  A reader returns [exc, list]: exc is "none" or *)
(* the exception that leaves the reader.                                   *)

Returned(l) == [exc |-> "none", list |-> l]
Raised(e) == [exc |-> e, list |-> << >>]

Digits == {"0", "1", "2", "3", "4", "5"}
digit_value(c) ==
    CASE c = "0" -> 0 [] c = "1" -> 1 [] c = "2" -> 2 [] c = "3" -> 3
      [] c = "4" -> 4 [] c = "5" -> 5

RECURSIVE decimal(_)
decimal(s) ==
    IF s = << >> THEN 0
    ELSE 10 * decimal(SubSeq(s, 1, Len(s) - 1)) + digit_value(s[Len(s)])

\* int(s): surrounding whitespace, an optional sign, then decimal digits;
\* anything else is a ValueError
int(s) ==
    LET t == strip(s)
        signed == t # << >> /\ Head(t) \in {"-", "+"}
        body == IF signed THEN Tail(t) ELSE t
    IN  IF body # << >> /\ \A k \in 1..Len(body) : body[k] \in Digits
        THEN [ok |-> TRUE,
              val |-> IF signed /\ Head(t) = "-" THEN 0 - decimal(body)
                      ELSE decimal(body)]
        ELSE [ok |-> FALSE, val |-> 0]

\* lines 52-54
RECURSIVE numeric_lines(_)
numeric_lines(lines) ==
    IF lines = << >> THEN Returned(<< >>)
    ELSE LET line == Head(lines)
             rest == numeric_lines(Tail(lines))
         IN  IF strip(line) = << >> THEN rest
             ELSE IF ~int(strip(line)).ok THEN Raised("ValueError")
             ELSE IF rest.exc # "none" THEN rest
             ELSE Returned(<< int(strip(line)).val >> \o rest.list)

process_react_numeric(f) ==
    IF ~f.exists
    THEN Raised("FileNotFoundError")
    ELSE LET lines == readlines(f.content)
             data == IF lines # << >>
                        /\ contains(lower(lines[1]),
                                    << "r", "e", "a", "c", "t", "s" >>)
                     THEN Tail(lines) ELSE lines
         IN  numeric_lines(data)

\* binary_lines without the upper() of line 62
RECURSIVE binary_lines_case_sensitive(_)
binary_lines_case_sensitive(lines) ==
    IF lines = << >> THEN << >>
    ELSE LET val == strip(Head(lines))
             rest == binary_lines_case_sensitive(Tail(lines))
         IN  IF val = << "Y" >> THEN << 4 >> \o rest
             ELSE IF val = << "N" >> THEN << 0 >> \o rest
             ELSE rest

\* lines 61-70
RECURSIVE binary_lines(_)
binary_lines(lines) ==
    IF lines = << >> THEN << >>
    ELSE LET val == upper(strip(Head(lines)))
             rest == binary_lines(Tail(lines))
         IN  IF val = << "Y" >> THEN << 4 >> \o rest
             ELSE IF val = << "N" >> THEN << 0 >> \o rest
             ELSE rest

process_react_binary(f) ==
    IF ~f.exists
    THEN Raised("FileNotFoundError")
    ELSE Returned(binary_lines(readlines(f.content)))

-----------------------------------------------------------------------------
(* Main execution: lines 75-127 *)

prefixes == << "flu", "gut_hiv", "nat_cntrl", "nat_hiv", "plos_hiv", "mouse" >>

\* consistent comparing the heavy and light counts only
consistent_chains_only(heavy, light, react) ==
    ~(Len(heavy) # Len(light))

\* line 110, negated: the three lists have one length
consistent(heavy, light, react) ==
    ~(Len(heavy) # Len(light) \/ Len(heavy) # Len(react))

\* zip_records with the two chains exchanged
zip_records_swapped(label, heavy, light, react) ==
    [k \in 1..Len(heavy) |-> [type |-> label,
                              NumReact |-> react[k],
                              DNA_fastaH_raw |-> light[k],
                              DNA_fastaL_raw |-> heavy[k]]]

\* zip_records tagging every record with the first label
zip_records_first_label(label, heavy, light, react) ==
    [k \in 1..Len(heavy) |-> [type |-> "flu",
                              NumReact |-> react[k],
                              DNA_fastaH_raw |-> heavy[k],
                              DNA_fastaL_raw |-> light[k]]]

\* lines 116-122: zip() stops at the shortest list
zip_records(label, heavy, light, react) ==
    LET n == CHOOSE m \in {Len(heavy), Len(light), Len(react)} :
                 m <= Len(heavy) /\ m <= Len(light) /\ m <= Len(react)
    IN  [k \in 1..n |-> [type |-> label,
                         NumReact |-> react[k],
                         DNA_fastaH_raw |-> heavy[k],
                         DNA_fastaL_raw |-> light[k]]]

\* lines 80-122: one pass of the loop body for prefixes[p], given the three
\* files its paths name.  appended is what lines 116-122 append to all_data;
\* assigned tells whether line 104/107 assigned reactivity; count is the
\* number of records of a consistent dataset, -1 otherwise.
loop_body(p, h, l, r) ==
    LET prefix == prefixes[p]
        should_uppercase == (prefix = "mouse")
        hc == parse_fasta_universal(h, should_uppercase)
        lc == parse_fasta_universal(l, should_uppercase)
        rr == IF prefix \in {"mouse", "plos_hiv"}
              THEN process_react_binary(r)
              ELSE process_react_numeric(r)
        base == [pc |-> "loop", exc |-> "none", appended |-> << >>,
                 heavy_chains |-> hc, light_chains |-> lc,
                 assigned |-> FALSE, reactivity |-> << >>, count |-> -1]
    IN  IF hc.isNone \/ lc.isNone THEN base
        ELSE IF rr.exc # "none"
        THEN [base EXCEPT !.pc = "aborted", !.exc = rr.exc]
        ELSE IF ~consistent(hc.list, lc.list, rr.list)
        THEN [base EXCEPT !.assigned = TRUE, !.reactivity = rr.list]
        ELSE [base EXCEPT !.assigned = TRUE, !.reactivity = rr.list,
                          !.appended = zip_records(prefix, hc.list,
                                                   lc.list, rr.list),
                          !.count = Len(hc.list)]

\* The files a dataset's three paths may name
HeavyFiles ==
    { Missing,
      File(<< ">", "h", "\n", "a", "c", "\n" >>),
      File(<< ">", "h", "\n", "A", "\n", ">", "h", "\n", "c", "\n" >>) }

LightFiles ==
    { Missing,
      File(<< ">", "h", "\n", "g", "\n" >>),
      File(<< ">", "h", "\n", "T", "\n", "g", "\n", ">", "h", "\n", "t" >>) }

ReactFiles ==
    { Missing,
      File(<< "R", "e", "a", "c", "t", "s", "\n", "1", "\n" >>),
      File(<< "0", "\n", "\n", "2", "\n" >>),
      File(<< "-", "1", "\n" >>),
      File(<< "1", "x", "\n" >>),
      File(<< "Y", "\n" >>),
      File(<< "n", "\n", "x", "\n", "Y", "\n" >>) }

\* loop_body, tabulated once over the prefixes and the files above
loop_body_table ==
    [p \in 1..Len(prefixes) |->
        [h \in HeavyFiles |->
            [l \in LightFiles |->
                [r \in ReactFiles |-> loop_body(p, h, l, r)]]]]

NoCall ==
    /\ fn = "none"
    /\ file = Missing
    /\ make_uppercase = FALSE
    /\ result = [done |-> FALSE, isNone |-> FALSE, exc |-> "none",
                 list |-> << >>]

\* lines 75-77.  heavy_chains, light_chains and reactivity are not bound
\* before the first pass; nothing reads them before it assigns them.
DriverStart ==
    /\ all_data = << >>
    /\ prefix_idx = 0
    /\ heavy_chains = None
    /\ light_chains = None
    /\ reactivity = << >>
    /\ pc = "loop"
    /\ exc = "none"
    /\ output = None
    /\ writes = 0
    /\ counts = << >>

NoPair ==
    /\ div = 0
    /\ alt_all_data = << >>
    /\ alt_pc = "idle"
    /\ alt_idx = 0
    /\ alt_exc = "none"

Init == DriverStart /\ NoCall /\ NoPair

\* the assignments of one pass of the loop body to the module's names
Assign(b) ==
    /\ prefix_idx' = prefix_idx + 1
    /\ heavy_chains' = b.heavy_chains
    /\ light_chains' = b.light_chains
    /\ reactivity' = IF b.assigned THEN b.reactivity ELSE reactivity
    /\ all_data' = all_data \o b.appended
    /\ pc' = b.pc
    /\ exc' = b.exc
    /\ counts' = Append(counts, b.count)
    /\ UNCHANGED << output, writes >>

\* line 79: the next prefix, lines 80-122 on its files
ProcessPrefix ==
    /\ pc = "loop"
    /\ prefix_idx < Len(prefixes)
    /\ \E h \in HeavyFiles, l \in LightFiles, r \in ReactFiles :
          Assign(loop_body_table[prefix_idx + 1][h][l][r])
    /\ UNCHANGED callVars
    /\ UNCHANGED pairVars

\* SaveOutput indented into the loop: a dump after each pass
SaveOutput_in_loop ==
    /\ pc = "loop"
    /\ prefix_idx >= 1
    /\ writes < prefix_idx
    /\ output' = Some(all_data)
    /\ writes' = writes + 1
    /\ pc' = IF prefix_idx = Len(prefixes) THEN "done" ELSE "loop"
    /\ UNCHANGED << all_data, prefix_idx, heavy_chains, light_chains,
                    reactivity, exc, counts >>
    /\ UNCHANGED callVars
    /\ UNCHANGED pairVars

\* lines 125-127: the loop is over, json.dump(all_data)
SaveOutput ==
    /\ pc = "loop"
    /\ prefix_idx = Len(prefixes)
    /\ output' = Some(all_data)
    /\ writes' = writes + 1
    /\ pc' = "done"
    /\ UNCHANGED << all_data, prefix_idx, heavy_chains, light_chains,
                    reactivity, exc, counts >>
    /\ UNCHANGED callVars
    /\ UNCHANGED pairVars

Next == ProcessPrefix \/ SaveOutput

Spec == Init /\ [][Next]_vars

-----------------------------------------------------------------------------
(* Claims about the main execution *)

\* the pass that just ended went through line 110: both parses returned a
\* list and the reactivity reader returned
ReachedCheck ==
    /\ prefix_idx >= 1
    /\ pc # "aborted"
    /\ ~heavy_chains.isNone
    /\ ~light_chains.isNone

SameLength ==
    /\ Len(heavy_chains.list) = Len(light_chains.list)
    /\ Len(heavy_chains.list) = Len(reactivity)

\* C3: when the heavy, light and reactivity lists of a dataset have the same
\* length N, the pass appends exactly N records to all_data, and the i-th of
\* them carries the dataset label, the i-th heavy chain, the i-th light chain
\* and the i-th reactivity value.
C3_ZipAppendsN ==
    [][ (prefix_idx' = prefix_idx + 1 /\ ReachedCheck' /\ SameLength') =>
          LET n == Len(heavy_chains'.list)
              old == Len(all_data)
          IN  /\ Len(all_data') = old + n
              /\ SubSeq(all_data', 1, old) = all_data
              /\ \A k \in 1..n :
                    all_data'[old + k] =
                        [type |-> prefixes[prefix_idx'],
                         NumReact |-> reactivity'[k],
                         DNA_fastaH_raw |-> heavy_chains'.list[k],
                         DNA_fastaL_raw |-> light_chains'.list[k]] ]_vars

\* the mouse pass has just appended two records after earlier ones
C3_Witness ==
    /\ ReachedCheck
    /\ SameLength
    /\ prefix_idx = 6
    /\ Len(heavy_chains.list) = 2
    /\ Len(all_data) > 2
    /\ all_data[Len(all_data)] =
          [type |-> "mouse", NumReact |-> 4,
           DNA_fastaH_raw |-> << "C" >>, DNA_fastaL_raw |-> << "T" >>]

\* C4: when the three counts of a dataset are not all equal, the pass adds no
\* record, leaves what earlier datasets added unchanged, and the loop goes on
\* to the next dataset.
C4_MismatchSkips ==
    [][ (prefix_idx' = prefix_idx + 1 /\ ReachedCheck' /\ ~SameLength') =>
          /\ all_data' = all_data
          /\ pc' = "loop"
          /\ exc' = "none" ]_vars

\* two heavy chains against one light chain, after earlier datasets added
\* records
C4_Witness ==
    /\ ReachedCheck
    /\ ~SameLength
    /\ Len(heavy_chains.list) = 2
    /\ Len(light_chains.list) = 1
    /\ Len(reactivity) = 1
    /\ all_data # << >>
    /\ pc = "loop"
    /\ prefix_idx < Len(prefixes)

\* C6: a missing input file of any kind is never fatal; the only condition
\* that ends the run before the output is written is a malformed integer in a
\* numeric reactivity file.
C6_OnlyParseErrorIsFatal ==
    pc = "aborted" => exc = "ValueError"

RECURSIVE Sum(_)
Sum(ns) == IF ns = << >> THEN 0 ELSE Head(ns) + Sum(Tail(ns))

AllValid ==
    /\ Len(counts) = Len(prefixes)
    /\ \A p \in 1..Len(counts) : counts[p] >= 0

\* the dataset whose block of records holds position j
DatasetOf(j) ==
    CHOOSE p \in 1..Len(counts) :
        /\ Sum(SubSeq(counts, 1, p - 1)) < j
        /\ j <= Sum(SubSeq(counts, 1, p))

\* C7: when all six datasets are valid with record counts N1..N6, the written
\* collection has N1+...+N6 records, in dataset-list order with each
\* dataset's records contiguous, each tagged with its dataset's label.
C7_EndToEnd ==
    (pc = "done" /\ AllValid) =>
        /\ ~output.isNone
        /\ Len(output.list) = Sum(counts)
        /\ \A j \in 1..Len(output.list) :
              output.list[j].type = prefixes[DatasetOf(j)]

\* six valid datasets, not all of one size
C7_Witness ==
    /\ pc = "done"
    /\ AllValid
    /\ counts = << 1, 2, 1, 2, 2, 1 >>
    /\ Len(output.list) = 9

\* C9: every NumReact in the accumulated collection is a non-negative
\* integer, whichever reader produced it.
C9_NumReactNonNegative ==
    \A k \in 1..Len(all_data) : all_data[k].NumReact >= 0

\* C10: the output is written at most once, only after all six labels have
\* been processed; a run that aborts in a reactivity reader writes nothing,
\* even when earlier datasets had added records.
C10_WriteOnceAtEnd ==
    /\ writes <= 1
    /\ writes = 1 => /\ prefix_idx = Len(prefixes)
                     /\ pc = "done"
                     /\ output = Some(all_data)
    /\ pc = "done" => writes = 1
    /\ pc = "aborted" => writes = 0 /\ output = None

\* an abort after earlier datasets had added records
C10_Witness ==
    /\ pc = "aborted"
    /\ prefix_idx = 3
    /\ Len(all_data) >= 2
    /\ writes = 0

-----------------------------------------------------------------------------
(* Two runs side by side: the run above, and a companion run over the same *)
(* files except that at one dataset, div, the run's heavy-chain file is    *)
(* missing while the companion's is present.                               *)

PairInit ==
    /\ DriverStart
    /\ NoCall
    /\ div = 0
    /\ alt_all_data = << >>
    /\ alt_pc = "loop"
    /\ alt_idx = 0
    /\ alt_exc = "none"

\* the companion's pass of the loop body, when it is still running
AltAssign(b) ==
    IF alt_pc = "loop"
    THEN /\ alt_idx' = alt_idx + 1
         /\ alt_all_data' = alt_all_data \o b.appended
         /\ alt_pc' = b.pc
         /\ alt_exc' = b.exc
    ELSE UNCHANGED << alt_idx, alt_all_data, alt_pc, alt_exc >>

\* both runs take the next prefix on the same three files
PairProcess ==
    /\ pc = "loop"
    /\ prefix_idx < Len(prefixes)
    /\ \E h \in HeavyFiles, l \in LightFiles, r \in ReactFiles :
          /\ Assign(loop_body_table[prefix_idx + 1][h][l][r])
          /\ AltAssign(loop_body_table[prefix_idx + 1][h][l][r])
    /\ UNCHANGED div
    /\ UNCHANGED callVars

\* the dataset whose heavy-chain file the run misses and the companion has
PairDiverge ==
    /\ pc = "loop"
    /\ prefix_idx < Len(prefixes)
    /\ div = 0
    /\ \E h \in HeavyFiles \ {Missing}, l \in LightFiles, r \in ReactFiles :
          /\ Assign(loop_body_table[prefix_idx + 1][Missing][l][r])
          /\ AltAssign(loop_body_table[prefix_idx + 1][h][l][r])
    /\ div' = prefix_idx + 1
    /\ UNCHANGED callVars

\* both runs leave the loop and write their output
PairSave ==
    /\ pc = "loop"
    /\ prefix_idx = Len(prefixes)
    /\ output' = Some(all_data)
    /\ writes' = writes + 1
    /\ pc' = "done"
    /\ alt_pc' = IF alt_pc = "loop" THEN "done" ELSE alt_pc
    /\ UNCHANGED << all_data, prefix_idx, heavy_chains, light_chains,
                    reactivity, exc, counts, div, alt_all_data, alt_idx,
                    alt_exc >>
    /\ UNCHANGED callVars

PairNext == PairProcess \/ PairDiverge \/ PairSave

PairSpec == PairInit /\ [][PairNext]_vars

\* the records a dataset contributed to a collection
Contribution(data, p) ==
    SelectSeq(data, LAMBDA rec : rec.type = prefixes[p])

BothEnded ==
    /\ div # 0
    /\ pc \in {"done", "aborted"}
    /\ alt_pc \in {"done", "aborted"}

\* the companion run aborted in the dataset whose heavy-chain file it has
AltAbortedAtDiv == alt_pc = "aborted" /\ alt_idx = div

\* C5 as stated: a dataset whose heavy-chain file is missing contributes no
\* record, and every other dataset contributes the same records as in a run
\* where that file is present.  Stated over the pairs of runs in which no
\* reader met a missing reactivity file (the abort that C6 is about), so that
\* what refutes it is the documented fatal case, a malformed integer.
C5_OthersSameAsWithFilePresent ==
    (BothEnded /\ exc # "FileNotFoundError" /\ alt_exc # "FileNotFoundError") =>
        /\ Contribution(all_data, div) = << >>
        /\ \A p \in 1..Len(prefixes) :
              p # div =>
                  Contribution(all_data, p) = Contribution(alt_all_data, p)

\* C5 amended: a dataset whose heavy-chain file is missing contributes no
\* record and does not abort the run; every earlier dataset contributes the
\* same records as in a run where that file is present, and so does every
\* later dataset unless that run aborts in the reactivity reader of the
\* dataset, in which case the later datasets contribute nothing to it.
C5_MissingHeavyIsolated ==
    BothEnded =>
        /\ Contribution(all_data, div) = << >>
        /\ ~(pc = "aborted" /\ prefix_idx = div)
        /\ \A p \in 1..Len(prefixes) :
              /\ p < div =>
                    Contribution(all_data, p) = Contribution(alt_all_data, p)
              /\ p > div =>
                    Contribution(alt_all_data, p) =
                        IF AltAbortedAtDiv THEN << >>
                        ELSE Contribution(all_data, p)

\* both runs end; the companion has records of the dataset, the run has none,
\* and datasets before and after it contributed to both
C5_Witness ==
    /\ BothEnded
    /\ pc = "done"
    /\ alt_pc = "done"
    /\ div = 3
    /\ Contribution(alt_all_data, div) # << >>
    /\ Contribution(all_data, 1) # << >>
    /\ Contribution(all_data, 6) # << >>

-----------------------------------------------------------------------------
(* One call of a parser or reader on one file: the file and the flag are   *)
(* drawn in Init, the call is one step.                                    *)

FastaAlphabet == {">", "\n", " ", "a"}
BinaryAlphabet == {"Y", "y", "N", "n", "x", " ", "\n"}

Texts(alphabet, n) == UNION {[1..k -> alphabet] : k \in 0..n}

Pending == [done |-> FALSE, isNone |-> FALSE, exc |-> "none", list |-> << >>]

DriverIdle ==
    /\ all_data = << >>
    /\ prefix_idx = 0
    /\ heavy_chains = None
    /\ light_chains = None
    /\ reactivity = << >>
    /\ pc = "idle"
    /\ exc = "none"
    /\ output = None
    /\ writes = 0
    /\ counts = << >>

CallInit ==
    /\ DriverIdle
    /\ NoPair
    /\ result = Pending
    /\ \/ /\ fn = "parse_fasta_universal"
          /\ file \in {Missing} \cup {File(t) : t \in Texts(FastaAlphabet, MaxLen)}
          /\ make_uppercase \in BOOLEAN
       \/ /\ fn = "process_react_binary"
          /\ file \in {Missing} \cup {File(t) : t \in Texts(BinaryAlphabet, MaxBinLen)}
          /\ make_uppercase = FALSE

CallParseFasta ==
    /\ fn = "parse_fasta_universal"
    /\ ~result.done
    /\ LET r == parse_fasta_universal(file, make_uppercase)
       IN  result' = [done |-> TRUE, isNone |-> r.isNone, exc |-> "none",
                      list |-> r.list]
    /\ UNCHANGED << fn, file, make_uppercase >>
    /\ UNCHANGED driverVars
    /\ UNCHANGED pairVars

CallReactBinary ==
    /\ fn = "process_react_binary"
    /\ ~result.done
    /\ LET r == process_react_binary(file)
       IN  result' = [done |-> TRUE, isNone |-> FALSE, exc |-> r.exc,
                      list |-> r.list]
    /\ UNCHANGED << fn, file, make_uppercase >>
    /\ UNCHANGED driverVars
    /\ UNCHANGED pairVars

CallNext == CallParseFasta \/ CallReactBinary

CallSpec == CallInit /\ [][CallNext]_vars

-----------------------------------------------------------------------------
(* Reference reading of a FASTA text, line by line *)

\* the lines of a text without their terminators
PlainLines(t) ==
    LET p == split(t, "\n")
    IN  IF p[Len(p)] = << >> THEN SubSeq(p, 1, Len(p) - 1) ELSE p

IsHeaderLine(l) == l # << >> /\ l[1] = ">"

IsSequenceLine(l) ==
    /\ \A k \in 1..Len(l) : l[k] # ">"
    /\ \E k \in 1..Len(l) : l[k] \notin Whitespace

\* each record is a '>' header line followed by one or more sequence lines
WellFormed(t) ==
    LET L == PlainLines(t)
    IN  /\ L # << >>
        /\ IsHeaderLine(L[1])
        /\ \A k \in 1..Len(L) : IsHeaderLine(L[k]) \/ IsSequenceLine(L[k])
        /\ \A k \in 1..Len(L) :
              IsHeaderLine(L[k]) => k < Len(L) /\ IsSequenceLine(L[k + 1])

NonWhitespace(l) == SelectSeq(l, LAMBDA c : c \notin Whitespace)

RECURSIVE ConcatLines(_, _, _)
ConcatLines(L, from, to) ==
    IF from > to THEN << >>
    ELSE NonWhitespace(L[from]) \o ConcatLines(L, from + 1, to)

\* the records of a well-formed text from header line k on
RECURSIVE RecordsFrom(_, _)
RecordsFrom(L, k) ==
    IF k > Len(L) THEN << >>
    ELSE LET later == {j \in (k + 1)..Len(L) : IsHeaderLine(L[j])}
             nxt == IF later = {} THEN Len(L) + 1
                    ELSE CHOOSE j \in later : \A i \in later : j <= i
         IN  << ConcatLines(L, k + 1, nxt - 1) >> \o RecordsFrom(L, nxt)

HeaderCount(t) ==
    LET L == PlainLines(t)
    IN  Cardinality({k \in 1..Len(L) : IsHeaderLine(L[k])})

FastaReturned ==
    fn = "parse_fasta_universal" /\ result.done /\ file.exists

\* C1: for a well-formed multi-record text, parse_fasta_universal returns
\* exactly one cleaned string per record, in file order (upper-cased when the
\* flag is set), and no returned string holds a whitespace character.
C1_OnePerRecordInOrder ==
    (FastaReturned /\ WellFormed(file.content)) =>
        LET expected == RecordsFrom(PlainLines(file.content), 1)
        IN  /\ ~result.isNone
            /\ Len(result.list) = HeaderCount(file.content)
            /\ Len(result.list) = Len(expected)
            /\ \A k \in 1..Len(expected) :
                  result.list[k] = IF make_uppercase THEN upper(expected[k])
                                   ELSE expected[k]
            /\ \A k \in 1..Len(result.list) :
                  \A j \in 1..Len(result.list[k]) :
                      result.list[k][j] \notin Whitespace

\* two records of different sequences, upper-cased, out of a well-formed text
C1_Witness ==
    /\ FastaReturned
    /\ WellFormed(file.content)
    /\ make_uppercase
    /\ Len(result.list) = 2
    /\ result.list[1] = << "A", "A" >>
    /\ result.list[2] = << "A" >>

\* the text from its first '>' on (the whole text when it has none)
FromFirstDelimiter(t) ==
    LET k == index(t, ">")
    IN  IF k = 0 THEN t ELSE SubSeq(t, k, Len(t))

BinaryReturned == fn = "process_react_binary" /\ result.done /\ file.exists

\* the value of one line of a Y/N file, as a list of zero or one entries
BinaryEntry(line) ==
    LET t == strip(line)
    IN  IF t \in {<< "Y" >>, << "y" >>} THEN << 4 >>
        ELSE IF t \in {<< "N" >>, << "n" >>} THEN << 0 >>
        ELSE << >>

RECURSIVE BinaryEntries(_)
BinaryEntries(L) ==
    IF L = << >> THEN << >> ELSE BinaryEntry(Head(L)) \o BinaryEntries(Tail(L))

====
